---- MODULE Spec2Model ----
(***************************************************************************)
(* Verification model of the DashMap client.                               *)
(*                                                                         *)
(*   AudioManager          playback queue + microphone capture (class)     *)
(*   ElevenLabsService     voice service of the emergency call (class)     *)
(*   EmergencyResponse     the component driving service + AudioManager    *)
(*   useElevenLabsWebSocket  the channel hook                              *)
(*   usePCMAudioRecorder   the PCM recorder hook                           *)
(*   VoiceConversation     the component driving hook + recorder           *)
(*   MemoriesApiClient     pollVideoStatus                                 *)
(*   useVideoUpload        startTranscription, generateReport              *)
(*   PCM conversions       capture encoders and pcmToAudioBuffer           *)
(*                                                                         *)
(* JavaScript runs one task at a time: an action is one task (an event     *)
(* handler, a timer callback, the continuation of an await) together with  *)
(* the microtasks it queues.                                               *)
(***************************************************************************)
EXTENDS Integers, Sequences, FiniteSets, TLC

\* ------------------------------------------------------------- bounds
MaxBuf == 3
MaxSock == 2
MaxCalls == 2
MaxInbound == 2
MaxWire == 2
MaxHSock == 2
MaxHIn == 2
MaxTasks == 1
MaxFrames == 1
MaxAttempts == 3
MaxEvents == 3
MaxFrameLen == 5

\* pollVideoStatus's default for maxAttempts
DefaultMaxAttempts == 30

Buffers == 1..MaxBuf
Socks == 1..MaxSock
Calls == 1..MaxCalls
HSocks == 1..MaxHSock
Msgs == 1..MaxHIn
Tasks == 1..MaxTasks
ChatEvents == {"thinking", "content"}

VARIABLES
  \* ---- AudioManager (one instance)
  audioQueue,          \* this.audioQueue: buffers waiting, oldest first
  isPlaying,           \* this.isPlaying
  audioStream,         \* this.audioStream # null
  audioContext,        \* this.audioContext # null
  isRecording,         \* this.isRecording
  recordingProcessor,  \* this.recordingProcessor # null
  rendering,           \* buffers started and not yet ended; a drain loop awaits each
  \* ---- history of the AudioManager
  nextBuf,             \* the next buffer handed to playAudio (hand-over order)
  badBufs,             \* buffers pcmToAudioBuffer cannot decode
  renderLog,           \* buffers in the order their rendering started
  cleaned,             \* cleanup() has been called
  \* ---- ElevenLabsService (one instance) and its transports
  websocket,           \* this.websocket: a socket, or 0 for null
  agentId,             \* this.agentId # null
  sockState,           \* readyState of every socket the service created
  ackRecv,             \* conversation_initiation_metadata received on the socket
  recTimer,            \* the setTimeout(..., 1000) of the socket's onopen is pending
  calls,               \* handleEmergencyCall invocations and the await each is at
  \* ---- EmergencyResponse
  ui,                  \* the component's state (useState) and timerRef
  mounted,             \* the component is mounted
  \* ---- history of the call
  wire,                \* messages written to a transport, in order
  inCount,             \* inbound messages delivered so far
  ended,               \* hung up, and no call started since
  endedPending,        \* ... and the hang-up came while a start was pending
  transport,           \* the last error or close event of a socket since the call began
  discRun,             \* disconnect() calls in succession (capped at 2)
  discNotifs,          \* connectionChange(false) notifications during that run
  \* ---- useElevenLabsWebSocket (the channel hook) and its transports
  connectionState,     \* "disconnected" | "connecting" | "connected" | "error"
  error,               \* the hook's error state ("" for null)
  messages,            \* the hook's message log
  websocketRef,        \* websocketRef.current: a socket, or 0 for null
  audioContextRef,     \* audioContextRef.current # null (playback context)
  hSock,               \* readyState of every socket the hook created
  readyTimers,         \* per socket: pending setTimeout(..., 100) callbacks of its onmessage
  blobReads,           \* binary messages whose arrayBuffer() is pending
  decoding,            \* buffers whose decodeAudioData is pending, with their message kind
  sources,             \* buffers playAudioResponse started that have not ended
  \* ---- history of the hook
  hWire,               \* messages the hook wrote to a transport, in order
  hIn,                 \* inbound messages delivered so far
  hKind,               \* the kind of the last inbound message
  hMeta,               \* per socket: conversation_initiation_metadata messages received
  hPings,              \* ping messages handled so far
  playLog,             \* buffers in the order playAudioResponse started them
  readyCount,          \* transitions into "connected" since the last connect()
  readyFired,          \* a timer of the current socket has fired
  clean,               \* no disconnect(), close or error event since the last connect()
  \* ---- usePCMAudioRecorder and the VoiceConversation component
  recState,            \* the recorder's React state: isRecording, isInitialized, error
  streamRef,           \* streamRef.current # null
  processor,           \* what the onaudioprocess of audioContextRef.current captured, or NoProc
  leaked,              \* what the processors of contexts no reference holds any more captured
  liveStreams,         \* microphone streams whose tracks were not stopped
  isListening,
  isPushToTalk,
  tasks,               \* handlers suspended at an await, with the render they captured
  frames,              \* history: the capture windows processed
  \* ---- MemoriesApiClient.pollVideoStatus (one invocation at a time)
  poll,                \* position in the loop, maxAttempts, attempt, the value returned
  pollHist,            \* history: requests issued, waits taken, the last response
  \* ---- useVideoUpload
  transcriptionState,  \* the hook's transcriptionState
  trRun,               \* startTranscription: position, callbacks made
  chatState,           \* the hook's chatState
  chatRun,             \* generateReport: position, the events delivered to it
  \* ---- one frame through the PCM conversions
  pcm

amVars == <<audioQueue, isPlaying, audioStream, audioContext, isRecording,
            recordingProcessor, rendering, nextBuf, badBufs, renderLog, cleaned>>

svcVars == <<websocket, agentId, sockState, ackRecv, recTimer, calls>>

uiVars == <<ui, mounted>>

callHist == <<wire, inCount, ended, endedPending, discRun, discNotifs, transport>>

callVars == <<svcVars, uiVars, callHist>>

hookState == <<connectionState, error, messages, websocketRef, audioContextRef,
               hSock, readyTimers, blobReads, decoding, sources>>

hookHist == <<hWire, hIn, hKind, hMeta, hPings, playLog, readyCount, readyFired, clean>>

hookVars == <<hookState, hookHist>>

recVars == <<recState, streamRef, processor, leaked, liveStreams, isListening,
             isPushToTalk, tasks, frames>>

voiceVars == <<hookVars, recVars>>

callSide == <<amVars, callVars>>

pollVars == <<poll, pollHist>>

trVars == <<transcriptionState, trRun>>

chatVars == <<chatState, chatRun>>

uploadVars == <<pollVars, trVars, chatVars>>

offlineVars == <<uploadVars, pcm>>

vars == <<callSide, voiceVars, offlineVars>>

\* ================================================== AudioManager
AM_Init ==
  /\ audioQueue = <<>>
  /\ isPlaying = FALSE
  /\ audioStream = FALSE
  /\ audioContext = FALSE
  /\ isRecording = FALSE
  /\ recordingProcessor = FALSE
  /\ rendering = {}
  /\ nextBuf = 1
  /\ badBufs = {}
  /\ renderLog = <<>>
  /\ cleaned = FALSE

\* The body of processAudioQueue's while loop, from the test of the queue to
\* the next await (or to the finally): q is the queue, playing the flag and
\* live the rendering set as the loop finds them, bad the undecodable buffers.
\* playAudioBufferDirect creates the context before it decodes; a decode that
\* throws rejects, the finally clears isPlaying and the loop is left with the
\* rest of the queue in place.
DrainLoop(q, playing, live, bad) ==
  IF q = <<>>
  THEN /\ audioQueue' = q
       /\ isPlaying' = FALSE
       /\ rendering' = live
       /\ UNCHANGED <<renderLog, audioContext>>
  ELSE /\ audioQueue' = Tail(q)
       /\ audioContext' = TRUE
       /\ IF Head(q) \in bad
          THEN /\ isPlaying' = FALSE
               /\ rendering' = live
               /\ UNCHANGED renderLog
          ELSE /\ isPlaying' = playing
               /\ rendering' = live \cup {Head(q)}
               /\ renderLog' = Append(renderLog, Head(q))

\* processAudioQueue called with the queue q.
ProcessAudioQueue(q, bad) ==
  IF isPlaying \/ q = <<>>
  THEN /\ audioQueue' = q
       /\ UNCHANGED <<isPlaying, rendering, renderLog, audioContext>>
  ELSE DrainLoop(q, TRUE, rendering, bad)

\* playAudio(base64Audio) / playAudioBuffer(audioData): the buffer is pushed,
\* then processAudioQueue runs. decodable says whether pcmToAudioBuffer will
\* accept the bytes (an odd byte count or no sample makes it throw).
AM_PlayAudio(decodable) ==
  /\ nextBuf <= MaxBuf
  /\ nextBuf' = nextBuf + 1
  /\ badBufs' = IF decodable THEN badBufs ELSE badBufs \cup {nextBuf}
  /\ ProcessAudioQueue(Append(audioQueue, nextBuf), badBufs')
  /\ UNCHANGED <<audioStream, isRecording, recordingProcessor, cleaned>>

\* source.onended of buffer b: the promise of playAudioBufferDirect resolves and
\* the drain loop that awaited it goes round again.
AM_OnEnded(b) ==
  /\ b \in rendering
  /\ DrainLoop(audioQueue, isPlaying, rendering \ {b}, badBufs)
  /\ UNCHANGED <<audioStream, isRecording, recordingProcessor, nextBuf, badBufs,
                 cleaned>>

\* requestPermission(), the getUserMedia promise resolved (granted) or rejected.
AM_RequestPermission(granted) ==
  /\ audioStream' = (IF granted THEN TRUE ELSE audioStream)
  /\ UNCHANGED <<audioQueue, isPlaying, audioContext, isRecording,
                 recordingProcessor, rendering, nextBuf, badBufs, renderLog,
                 cleaned>>

\* startRecording(onAudioData): throws without a stream; else a new context and
\* processor replace the fields and isRecording is set.
AM_StartRecording ==
  /\ IF audioStream
     THEN /\ audioContext' = TRUE
          /\ recordingProcessor' = TRUE
          /\ isRecording' = TRUE
     ELSE UNCHANGED <<audioContext, recordingProcessor, isRecording>>
  /\ UNCHANGED <<audioQueue, isPlaying, audioStream, rendering, nextBuf, badBufs,
                 renderLog, cleaned>>

\* stopRecording()
AM_StopRecording ==
  /\ isRecording' = FALSE
  /\ recordingProcessor' = FALSE
  /\ audioContext' = FALSE
  /\ UNCHANGED <<audioQueue, isPlaying, audioStream, rendering, nextBuf, badBufs,
                 renderLog, cleaned>>

\* A cleanup() that stops recording and the tracks but keeps the queue.
AM_Cleanup_KeepsQueue ==
  /\ isRecording' = FALSE
  /\ recordingProcessor' = FALSE
  /\ audioContext' = FALSE
  /\ UNCHANGED <<audioQueue, isPlaying>>
  /\ audioStream' = FALSE
  /\ cleaned' = TRUE

\* cleanup(): stopRecording(), queue emptied, isPlaying cleared, tracks stopped.
\* A buffer that is rendering keeps rendering, and its drain loop keeps waiting.
AM_Cleanup_Fields ==
  /\ isRecording' = FALSE
  /\ recordingProcessor' = FALSE
  /\ audioContext' = FALSE
  /\ audioQueue' = <<>>
  /\ isPlaying' = FALSE
  /\ audioStream' = FALSE
  /\ cleaned' = TRUE

AM_Cleanup ==
  /\ AM_Cleanup_Fields
  /\ UNCHANGED <<rendering, nextBuf, badBufs, renderLog>>

\* ================================================== ElevenLabsService
Call_Init ==
  /\ websocket = 0
  /\ agentId = FALSE
  /\ sockState = [s \in Socks |-> "none"]
  /\ ackRecv = [s \in Socks |-> FALSE]
  /\ recTimer = [s \in Socks |-> FALSE]
  /\ calls = [c \in Calls |-> "none"]
  /\ ui = [isConnected |-> FALSE, isConnecting |-> FALSE, currentCall |-> FALSE,
           error |-> "", isConversationActive |-> FALSE, timer |-> FALSE,
           messages |-> <<>>]
  /\ mounted = TRUE
  /\ wire = <<>>
  /\ inCount = 0
  /\ ended = FALSE
  /\ endedPending = FALSE
  /\ discRun = 0
  /\ discNotifs = 0
  /\ transport = "none"

Live(st) == {s \in Socks : st[s] \in {"connecting", "open"}}

FreeSocks == {s \in Socks : sockState[s] = "none"}

\* WebSocket.close(): a socket that is connecting or open starts closing; its
\* close event follows. From then on it delivers no open and no message event.
WsClose(st, s) ==
  IF s # 0 /\ st[s] \in {"connecting", "open"} THEN [st EXCEPT ![s] = "closing"] ELSE st

\* stopCallTimer(): the interval is cleared (a ref) and the state reset.
StopCallTimer(u) ==
  IF mounted
  THEN [u EXCEPT !.timer = FALSE, !.isConversationActive = FALSE]
  ELSE [u EXCEPT !.timer = FALSE]

\* handleConnectionChange(connected), the listener of "connectionChange".
HandleConnectionChange(u, connected) ==
  IF connected
  THEN IF mounted THEN [u EXCEPT !.isConnected = TRUE, !.isConnecting = FALSE] ELSE u
  ELSE StopCallTimer(IF mounted
                     THEN [u EXCEPT !.isConnected = FALSE, !.isConnecting = FALSE,
                                    !.currentCall = FALSE]
                     ELSE u)

\* handleError(errorMessage), the listener of "error".
HandleError(u, msg) ==
  StopCallTimer(IF mounted
                THEN [u EXCEPT !.error = msg, !.isConnecting = FALSE,
                               !.isConnected = FALSE, !.currentCall = FALSE]
                ELSE u)

\* A catch of handleEmergencyCall that shows the error and resets nothing.
CallFailedKeepsCall(u) ==
  IF mounted THEN [u EXCEPT !.error = "Failed to start conversation"] ELSE u

\* The catch of handleEmergencyCall.
CallFailed(u) ==
  IF mounted
  THEN [u EXCEPT !.error = "Failed to start conversation", !.isConnecting = FALSE,
                 !.currentCall = FALSE]
  ELSE u

Pending ==
  \/ \E c \in Calls : calls[c] \in {"permission", "provisioning"}
  \/ \E s \in Socks : sockState[s] = "connecting" \/ recTimer[s]

\* Any task but a disconnect() or a close event ends a run of disconnect() calls.
NoDisconnect == discRun' = 0 /\ discNotifs' = 0

\* ElevenLabsService.disconnect(): the fields it leaves and the notification.
ServiceDisconnect(u) ==
  /\ sockState' = WsClose(sockState, websocket)
  /\ websocket' = 0
  /\ agentId' = FALSE
  /\ ui' = u
  /\ discRun' = IF discRun < 2 THEN discRun + 1 ELSE 2
  /\ discNotifs' = IF discNotifs < 3 THEN discNotifs + 1 ELSE 3

\* handleEmergencyCall(type) up to its first await. The buttons are rendered
\* while the component is neither connected nor connecting.
HandleEmergencyCall(c) ==
  /\ UNCHANGED <<voiceVars, offlineVars>>
  /\ transport' = "none"
  /\ mounted /\ ~ui.isConnected /\ ~ui.isConnecting
  /\ calls[c] = "none" /\ \A d \in Calls : d < c => calls[d] # "none"
  /\ calls' = [calls EXCEPT ![c] = "permission"]
  /\ ui' = [ui EXCEPT !.error = "", !.isConnecting = TRUE, !.currentCall = TRUE,
                      !.messages = <<>>]
  /\ ended' = FALSE /\ endedPending' = FALSE
  /\ NoDisconnect
  /\ UNCHANGED <<amVars, websocket, agentId, sockState, ackRecv, recTimer, mounted,
                 wire, inCount>>

\* requestPermission() settles. Granted: startConversation runs to its await of
\* createAgent, closing the socket the service holds. Denied: the catch.
PermissionSettles(c, granted) ==
  /\ UNCHANGED <<voiceVars, offlineVars, transport>>
  /\ calls[c] = "permission"
  /\ AM_RequestPermission(granted)
  /\ IF granted
     THEN /\ calls' = [calls EXCEPT ![c] = "provisioning"]
          /\ sockState' = WsClose(sockState, websocket)
          /\ websocket' = 0
          /\ UNCHANGED ui
     ELSE /\ calls' = [calls EXCEPT ![c] = "done"]
          /\ ui' = CallFailed(ui)
          /\ UNCHANGED <<sockState, websocket>>
  /\ NoDisconnect
  /\ UNCHANGED <<agentId, ackRecv, recTimer, mounted, wire, inCount, ended,
                 endedPending>>

\* createAgent() settles: the request failed or was answered with an error
\* status ("failed": it throws, "error" is emitted and the catch of
\* handleEmergencyCall runs), or it was answered 200 with an agent_id ("agent")
\* or without one ("no agent_id"). In both of the latter this.agentId is
\* assigned from the body and startConversation goes on: it builds the URL from
\* this.agentId, makes the WebSocket and stores it.
ProvisioningSettles(c, s, res) ==
  /\ UNCHANGED <<voiceVars, offlineVars, transport>>
  /\ calls[c] = "provisioning"
  /\ calls' = [calls EXCEPT ![c] = "done"]
  /\ IF res # "failed"
     THEN /\ s \in FreeSocks /\ \A t \in FreeSocks : s <= t
          /\ agentId' = (res = "agent")
          /\ websocket' = s
          /\ sockState' = [sockState EXCEPT ![s] = "connecting"]
          /\ UNCHANGED ui
     ELSE /\ s = 0
          /\ ui' = CallFailed(HandleError(ui, "Failed to create agent"))
          /\ UNCHANGED <<agentId, websocket, sockState>>
  /\ NoDisconnect
  /\ UNCHANGED <<amVars, ackRecv, recTimer, mounted, wire, inCount, ended,
                 endedPending>>

\* websocket.onopen of socket s.
SockOpen(s) ==
  /\ UNCHANGED <<voiceVars, offlineVars, transport>>
  /\ sockState[s] = "connecting"
  /\ sockState' = [sockState EXCEPT ![s] = "open"]
  /\ ui' = HandleConnectionChange(ui, TRUE)
  /\ recTimer' = [recTimer EXCEPT ![s] = TRUE]
  /\ NoDisconnect
  /\ UNCHANGED <<amVars, websocket, agentId, ackRecv, calls, mounted, wire, inCount,
                 ended, endedPending>>

\* The timer of onopen fires: audioManager.startRecording(callback).
RecTimerFires(s) ==
  /\ UNCHANGED <<voiceVars, offlineVars, transport>>
  /\ recTimer[s]
  /\ recTimer' = [recTimer EXCEPT ![s] = FALSE]
  /\ AM_StartRecording
  /\ NoDisconnect
  /\ UNCHANGED <<websocket, agentId, sockState, ackRecv, calls, ui, mounted, wire,
                 inCount, ended, endedPending>>

\* recordingProcessor.onaudioprocess: one capture window. The callback given to
\* startRecording writes a chunk when this.websocket is set and OPEN.
OnAudioProcess ==
  /\ UNCHANGED <<voiceVars, offlineVars, transport>>
  /\ recordingProcessor /\ isRecording
  /\ websocket # 0 /\ sockState[websocket] = "open"
  /\ Len(wire) < MaxWire
  /\ wire' = Append(wire, [sock |-> websocket, kind |-> "user_audio_chunk",
                           acked |-> ackRecv[websocket]])
  /\ NoDisconnect
  /\ UNCHANGED <<amVars, svcVars, uiVars, inCount, ended, endedPending>>

\* websocket.onmessage of socket s, data.type = "conversation_initiation_metadata".
MsgMetadata(s) ==
  /\ ackRecv' = [ackRecv EXCEPT ![s] = TRUE]
  /\ UNCHANGED <<amVars, websocket, agentId, sockState, recTimer, calls, ui, mounted,
                 wire>>

\* data.type = "audio" with audio_base_64: await audioManager.playAudio(...).
MsgAudio(s, decodable) ==
  /\ AM_PlayAudio(decodable)
  /\ UNCHANGED <<svcVars, uiVars, wire>>

\* data.type = "ping": the pong goes to this.websocket. A send on a socket that
\* is absent or still connecting throws into the handler's catch; on a closing
\* or closed socket it is discarded.
MsgPing(s) ==
  /\ IF websocket # 0 /\ sockState[websocket] = "open"
     THEN /\ Len(wire) < MaxWire
          /\ wire' = Append(wire, [sock |-> websocket, kind |-> "pong",
                                   acked |-> ackRecv[websocket]])
     ELSE UNCHANGED wire
  /\ UNCHANGED <<amVars, svcVars, uiVars>>

\* data.type = "user_transcript" or "agent_response" with a text: "message" is
\* emitted. handleMessage appends it and, isConversationActive being false,
\* starts the call timer, which sets isConversationActive. That state is a
\* dependency of the component's effect: its cleanup runs (disconnect(),
\* cleanup(), stopCallTimer()) and the effect builds a new service and a new
\* AudioManager, whose fields are those disconnect() and cleanup() leave; the
\* buffers the old AudioManager was rendering are no longer the new one's.
MsgTranscript(s, role) ==
  /\ IF mounted
     THEN /\ ui' = HandleConnectionChange(
                     [ui EXCEPT !.messages = Append(ui.messages, role)], FALSE)
          /\ sockState' = WsClose(sockState, websocket)
          /\ websocket' = 0
          /\ agentId' = FALSE
          /\ AM_Cleanup_Fields
          /\ rendering' = {}
          /\ UNCHANGED <<nextBuf, badBufs, renderLog>>
     ELSE /\ ui' = [ui EXCEPT !.timer = TRUE]
          /\ UNCHANGED <<amVars, sockState, websocket, agentId>>
  /\ UNCHANGED <<ackRecv, recTimer, calls, mounted, wire>>

\* Any other message (interruption, vad_score, an unknown type, an audio or
\* transcript event without its payload, text that is not JSON): nothing.
MsgOther(s) ==
  UNCHANGED <<amVars, svcVars, uiVars, wire>>

SockMessage(s) ==
  /\ UNCHANGED <<voiceVars, offlineVars, transport>>
  /\ sockState[s] = "open"
  /\ inCount < MaxInbound
  /\ inCount' = inCount + 1
  /\ \/ MsgMetadata(s)
     \/ \E decodable \in BOOLEAN : MsgAudio(s, decodable)
     \/ MsgPing(s)
     \/ \E role \in {"user", "agent"} : MsgTranscript(s, role)
     \/ MsgOther(s)
  /\ NoDisconnect
  /\ UNCHANGED <<ended, endedPending>>

\* websocket.onerror of socket s; the close event follows.
SockError(s) ==
  /\ UNCHANGED <<voiceVars, offlineVars>>
  /\ transport' = "error"
  /\ sockState[s] \in {"connecting", "open"}
  /\ sockState' = [sockState EXCEPT ![s] = "closing"]
  /\ ui' = HandleError(ui, "Connection error occurred")
  /\ NoDisconnect
  /\ UNCHANGED <<amVars, websocket, agentId, ackRecv, recTimer, calls, mounted, wire,
                 inCount, ended, endedPending>>

\* websocket.onclose of socket s: closed by the server with the normal code
\* 1000 or with another one, or closed after close() or an error. The handler
\* logs the code and the reason.
SockClose(s, normal) ==
  /\ UNCHANGED <<voiceVars, offlineVars>>
  /\ transport' = IF sockState[s] = "open"
                  THEN (IF normal THEN "closed" ELSE "abnormal")
                  ELSE transport
  /\ sockState[s] \in {"open", "closing"}
  /\ sockState' = [sockState EXCEPT ![s] = "closed"]
  /\ ui' = HandleConnectionChange(ui, FALSE)
  /\ AM_StopRecording
  /\ discNotifs' = IF discRun > 0 /\ discNotifs < 3 THEN discNotifs + 1 ELSE discNotifs
  /\ UNCHANGED <<websocket, agentId, ackRecv, recTimer, calls, mounted, wire, inCount,
                 ended, endedPending, discRun>>

\* handleHangUp(): the Cancel button while connecting, the Hang Up button while
\* connected with a current call.
HandleHangUp ==
  /\ UNCHANGED <<voiceVars, offlineVars, transport>>
  /\ mounted /\ (ui.isConnecting \/ (ui.isConnected /\ ui.currentCall))
  /\ ServiceDisconnect([StopCallTimer(HandleConnectionChange(ui, FALSE))
                          EXCEPT !.messages = <<>>, !.error = ""])
  /\ AM_Cleanup
  /\ ended' = TRUE
  /\ endedPending' = Pending
  /\ UNCHANGED <<ackRecv, recTimer, calls, mounted, wire, inCount>>

\* The component unmounts: the cleanup of its effect.
Unmount ==
  /\ UNCHANGED <<voiceVars, offlineVars, transport>>
  /\ mounted
  /\ mounted' = FALSE
  /\ ServiceDisconnect(StopCallTimer(HandleConnectionChange(ui, FALSE)))
  /\ AM_Cleanup
  /\ ended' = TRUE
  /\ endedPending' = Pending
  /\ UNCHANGED <<ackRecv, recTimer, calls, wire, inCount>>

\* source.onended of a buffer of the call.
CallOnEnded(b) ==
  /\ UNCHANGED <<voiceVars, offlineVars, transport>>
  /\ AM_OnEnded(b)
  /\ NoDisconnect
  /\ UNCHANGED <<svcVars, uiVars, wire, inCount, ended, endedPending>>

\* ================================================== useElevenLabsWebSocket
Hook_Init ==
  /\ connectionState = "disconnected"
  /\ error = ""
  /\ messages = <<>>
  /\ websocketRef = 0
  /\ audioContextRef = FALSE
  /\ hSock = [s \in HSocks |-> "none"]
  /\ readyTimers = [s \in HSocks |-> 0]
  /\ blobReads = {}
  /\ decoding = {}
  /\ sources = {}
  /\ hWire = <<>>
  /\ hIn = 0
  /\ hKind = ""
  /\ hMeta = [s \in HSocks |-> 0]
  /\ hPings = 0
  /\ playLog = <<>>
  /\ readyCount = 0
  /\ readyFired = FALSE
  /\ clean = TRUE

HFreeSocks == {s \in HSocks : hSock[s] = "none"}

\* setConnectionState(to), counting the transitions into "connected".
SetConnectionState(to) ==
  /\ connectionState' = to
  /\ readyCount' = IF to = "connected" /\ connectionState # "connected"
                   THEN readyCount + 1 ELSE readyCount

\* connect(agentId) with an API key: it has no await, so it runs to its end.
\* The socket it makes replaces websocketRef.current; the one held before is
\* neither closed nor detached.
Hook_Connect(s) ==
  /\ s \in HFreeSocks /\ \A t \in HFreeSocks : s <= t
  /\ connectionState' = "connecting"
  /\ error' = ""
  /\ hSock' = [hSock EXCEPT ![s] = "connecting"]
  /\ websocketRef' = s
  /\ readyCount' = 0 /\ readyFired' = FALSE /\ clean' = TRUE
  /\ UNCHANGED <<messages, audioContextRef, readyTimers, blobReads, decoding, sources,
                 hWire, hIn, hKind, hMeta, hPings, playLog>>

\* disconnect()
Hook_Disconnect ==
  /\ hSock' = WsClose(hSock, websocketRef)
  /\ websocketRef' = 0
  /\ audioContextRef' = FALSE
  /\ SetConnectionState("disconnected")
  /\ error' = ""
  /\ clean' = FALSE
  /\ UNCHANGED <<messages, readyTimers, blobReads, decoding, sources, hWire, hIn, hKind,
                 hMeta, hPings, playLog, readyFired>>

\* websocket.onopen of socket s: the initiation message is sent and logged.
Hook_OnOpen(s) ==
  /\ hSock[s] = "connecting"
  /\ Len(hWire) < MaxWire
  /\ hSock' = [hSock EXCEPT ![s] = "open"]
  /\ hWire' = Append(hWire, [sock |-> s, kind |-> "conversation_initiation_client_data"])
  /\ messages' = Append(messages, [type |-> "conversation_initiation", n |-> 0])
  /\ UNCHANGED <<connectionState, error, websocketRef, audioContextRef, readyTimers,
                 blobReads, decoding, sources, hIn, hKind, hMeta, hPings, playLog, readyCount,
                 readyFired, clean>>

\* onmessage, message.type = "conversation_initiation_metadata": the state is
\* set from a timer 100 ms later.
Hook_MsgMetadata(s) ==
  /\ readyTimers' = [readyTimers EXCEPT ![s] = @ + 1]
  /\ hMeta' = [hMeta EXCEPT ![s] = @ + 1]
  /\ UNCHANGED <<connectionState, error, messages, websocketRef, audioContextRef,
                 hSock, blobReads, decoding, sources, hWire, hPings, playLog,
                 readyCount, readyFired, clean>>

\* The same timer with a callback that leaves the state as it is.
Hook_ReadyTimerNoEffect(s) ==
  /\ readyTimers[s] > 0
  /\ readyTimers' = [readyTimers EXCEPT ![s] = @ - 1]
  /\ readyFired' = (readyFired \/ s = websocketRef)
  /\ UNCHANGED <<connectionState, readyCount, error, messages, websocketRef,
                 audioContextRef, hSock, blobReads, decoding, sources, hWire, hIn, hKind,
                 hMeta, hPings, playLog, clean>>

\* The timer of a metadata message of socket s fires.
Hook_ReadyTimerFires(s) ==
  /\ readyTimers[s] > 0
  /\ readyTimers' = [readyTimers EXCEPT ![s] = @ - 1]
  /\ SetConnectionState("connected")
  /\ readyFired' = (readyFired \/ s = websocketRef)
  /\ UNCHANGED <<error, messages, websocketRef, audioContextRef, hSock, blobReads,
                 decoding, sources, hWire, hIn, hKind, hMeta, hPings, playLog, clean>>

\* onmessage, a transcript: "agent_transcript", "user_transcript", or
\* "agent_response" (logged as an agent transcript).
Hook_MsgTranscript(s, type) ==
  /\ messages' = Append(messages, [type |-> type, n |-> hIn'])
  /\ UNCHANGED <<connectionState, error, websocketRef, audioContextRef, hSock,
                 readyTimers, blobReads, decoding, sources, hWire, hMeta, hPings,
                 playLog, readyCount, readyFired, clean>>

\* onmessage, message.type = "audio" with audio_base_64: playAudioResponse runs
\* to its await of decodeAudioData; the log entry is written after it returns.
Hook_MsgAudio(s) ==
  /\ audioContextRef' = TRUE
  /\ decoding' = decoding \cup {[buf |-> hIn', kind |-> "audio"]}
  /\ UNCHANGED <<connectionState, error, messages, websocketRef, hSock, readyTimers,
                 blobReads, sources, hWire, hMeta, hPings, playLog, readyCount,
                 readyFired, clean>>

\* onmessage, a Blob: the handler awaits event.data.arrayBuffer().
Hook_MsgBlob(s) ==
  /\ blobReads' = blobReads \cup {hIn'}
  /\ UNCHANGED <<connectionState, error, messages, websocketRef, audioContextRef,
                 hSock, readyTimers, decoding, sources, hWire, hMeta, hPings, playLog,
                 readyCount, readyFired, clean>>

\* onmessage, message.type = "ping": the event id is logged to the console.
Hook_MsgPing(s) ==
  /\ hPings' = hPings + 1
  /\ UNCHANGED <<connectionState, error, messages, websocketRef, audioContextRef,
                 hSock, readyTimers, blobReads, decoding, sources, hWire, hMeta,
                 playLog, readyCount, readyFired, clean>>

\* An onmessage whose catch tears the session down when the text is not JSON.
Hook_MsgOtherFatal(s) ==
  /\ error' = "Invalid message"
  /\ SetConnectionState("error")
  /\ UNCHANGED <<messages, websocketRef, audioContextRef, hSock, readyTimers,
                 blobReads, decoding, sources, hWire, hMeta, hPings, playLog,
                 readyFired, clean>>

\* onmessage, any other type, an audio event without payload, or text that is
\* not JSON (caught and logged).
Hook_MsgOther(s) ==
  UNCHANGED <<connectionState, error, messages, websocketRef, audioContextRef, hSock,
              readyTimers, blobReads, decoding, sources, hWire, hMeta, hPings,
              playLog, readyCount, readyFired, clean>>

Hook_OnMessage(s) ==
  /\ hSock[s] = "open"
  /\ hIn < MaxHIn
  /\ hIn' = hIn + 1
  /\ \/ Hook_MsgMetadata(s) /\ UNCHANGED hPings /\ hKind' = "metadata"
     \/ /\ \E type \in {"agent_transcript", "user_transcript"} :
            Hook_MsgTranscript(s, type)
        /\ hKind' = "transcript"
     \/ Hook_MsgAudio(s) /\ hKind' = "audio"
     \/ Hook_MsgBlob(s) /\ hKind' = "blob"
     \/ Hook_MsgPing(s) /\ hKind' = "ping"
     \/ Hook_MsgOther(s) /\ hKind' = "other"

\* arrayBuffer() of a binary message resolves: the entry is logged and
\* playAudioResponse runs to its await of decodeAudioData.
Hook_BlobRead(b) ==
  /\ b \in blobReads
  /\ blobReads' = blobReads \ {b}
  /\ messages' = Append(messages, [type |-> "agent_response", n |-> b])
  /\ audioContextRef' = TRUE
  /\ decoding' = decoding \cup {[buf |-> b, kind |-> "blob"]}
  /\ UNCHANGED <<connectionState, error, websocketRef, hSock, readyTimers, sources,
                 hWire, hIn, hKind, hMeta, hPings, playLog, readyCount, readyFired, clean>>

\* decodeAudioData of d settles and playAudioResponse runs to its end. playable:
\* the data decoded, or it did not and the PCM fallback built a buffer.
\* createBufferSource needs audioContextRef.current, which disconnect() nulls;
\* without it both the try and the fallback throw. A source is started at once.
Hook_DecodeSettles(d, playable) ==
  /\ d \in decoding
  /\ decoding' = decoding \ {d}
  /\ IF playable /\ audioContextRef
     THEN /\ sources' = sources \cup {d.buf}
          /\ playLog' = Append(playLog, d.buf)
     ELSE UNCHANGED <<sources, playLog>>
  /\ messages' = IF d.kind = "audio"
                 THEN Append(messages, [type |-> "agent_response", n |-> d.buf])
                 ELSE messages
  /\ UNCHANGED <<connectionState, error, websocketRef, audioContextRef, hSock,
                 readyTimers, blobReads, hWire, hIn, hKind, hMeta, hPings, readyCount,
                 readyFired, clean>>

\* A started source reaches its end.
Hook_PlayEnds(b) ==
  /\ b \in sources
  /\ sources' = sources \ {b}
  /\ UNCHANGED <<connectionState, error, messages, websocketRef, audioContextRef,
                 hSock, readyTimers, blobReads, decoding, hWire, hIn, hKind, hMeta, hPings,
                 playLog, readyCount, readyFired, clean>>

\* websocket.onerror of socket s; the close event follows.
Hook_OnError(s) ==
  /\ hSock[s] \in {"connecting", "open"}
  /\ hSock' = [hSock EXCEPT ![s] = "closing"]
  /\ error' = "WebSocket connection error"
  /\ SetConnectionState("error")
  /\ clean' = FALSE
  /\ UNCHANGED <<messages, websocketRef, audioContextRef, readyTimers, blobReads,
                 decoding, sources, hWire, hIn, hKind, hMeta, hPings, playLog, readyFired>>

\* websocket.onclose of socket s with close code 1000 (normal) or another.
Hook_OnClose(s, normal) ==
  /\ hSock[s] \in {"open", "closing"}
  /\ hSock' = [hSock EXCEPT ![s] = "closed"]
  /\ SetConnectionState("disconnected")
  /\ error' = IF normal THEN error ELSE "Connection closed unexpectedly"
  /\ clean' = FALSE
  /\ UNCHANGED <<messages, websocketRef, audioContextRef, readyTimers, blobReads,
                 decoding, sources, hWire, hIn, hKind, hMeta, hPings, playLog, readyFired>>

\* ================================================== usePCMAudioRecorder
NoProc == [live |-> FALSE, isRecording |-> FALSE, connected |-> FALSE]

NoTask == [pc |-> "none", connected |-> FALSE, isRecording |-> FALSE,
           isInitialized |-> FALSE, isPushToTalk |-> FALSE]

Rec_Init ==
  /\ recState = [isRecording |-> FALSE, isInitialized |-> FALSE, error |-> ""]
  /\ streamRef = FALSE
  /\ processor = NoProc
  /\ leaked = {}
  /\ liveStreams = 0
  /\ isListening = FALSE
  /\ isPushToTalk = FALSE
  /\ tasks = [t \in Tasks |-> NoTask]
  /\ frames = <<>>

\* What the handlers of the current render capture: connectionState (through
\* connectionCheck and sendAudioChunk) and the recorder's state.
Render(pc) ==
  [pc |-> pc, connected |-> (connectionState = "connected"),
   isRecording |-> recState.isRecording, isInitialized |-> recState.isInitialized,
   isPushToTalk |-> isPushToTalk]

FreeTasks == {t \in Tasks : tasks[t].pc = "none"}

\* A handler suspends: it takes the first unused slot.
Suspend(t, pc) ==
  /\ t \in FreeTasks /\ \A u \in FreeTasks : t <= u
  /\ tasks' = [tasks EXCEPT ![t] = Render(pc)]

\* initializeRecorder after getUserMedia resolved, for the render r that made
\* it: the stream, the context and the processor replace the ones the refs
\* held, which are neither stopped nor closed.
InitializeRecorderResolved(r) ==
  /\ streamRef' = TRUE
  /\ liveStreams' = liveStreams + 1
  /\ leaked' = IF processor.live THEN leaked \cup {processor} ELSE leaked
  /\ processor' = [live |-> TRUE, isRecording |-> r.isRecording, connected |-> r.connected]

\* stopRecording()
Rec_StopRecording(st) == [st EXCEPT !.isRecording = FALSE]

\* cleanup(): the stream and the context the refs hold are stopped and closed.
Rec_Cleanup ==
  /\ streamRef' = FALSE
  /\ liveStreams' = IF streamRef THEN liveStreams - 1 ELSE liveStreams
  /\ processor' = NoProc
  /\ recState' = [isRecording |-> FALSE, isInitialized |-> FALSE, error |-> ""]
  /\ UNCHANGED leaked

\* sendAudioChunk(audioData) of a render in which the state was `connected`,
\* for a non-empty chunk. send() throws on a socket that is still connecting
\* (caught, nothing is logged) and discards the data on one that is closing
\* or closed.
SendAudioChunk(connected) ==
  IF websocketRef # 0 /\ connected /\ hSock[websocketRef] # "connecting"
  THEN /\ hWire' = IF hSock[websocketRef] = "open"
                   THEN Append(hWire, [sock |-> websocketRef, kind |-> "user_audio_chunk"])
                   ELSE hWire
       /\ messages' = Append(messages, [type |-> "user_audio_chunk", n |-> 0])
  ELSE UNCHANGED <<hWire, messages>>

\* The record of one capture window of processor p: what its handler captured
\* (isRecording, the gate's value), whether onAudioData was invoked, whether
\* the chunk was written to the transport, and whether at that moment capture
\* was running on the recorder's own processor with the channel connected.
Frame(p, forwarded) ==
  [isRecording |-> p.isRecording, gate |-> p.connected, forwarded |-> forwarded,
   sent |-> (forwarded /\ p.connected /\ websocketRef # 0
             /\ hSock[websocketRef] = "open"),
   due |-> (p = processor /\ recState.isRecording /\ connectionState = "connected")]

\* processor.onaudioprocess of a processor whose handler never consults
\* connectionCheck.
RecOnAudioProcessNoGate(p) ==
  /\ p.live
  /\ Len(frames) < MaxFrames
  /\ Len(hWire) < MaxWire
  /\ frames' = Append(frames, Frame(p, p.isRecording))
  /\ IF p.isRecording
     THEN SendAudioChunk(p.connected)
     ELSE UNCHANGED <<hWire, messages>>

\* processor.onaudioprocess of processor p for one capture window.
RecOnAudioProcess(p) ==
  /\ p.live
  /\ Len(frames) < MaxFrames
  /\ Len(hWire) < MaxWire
  /\ frames' = Append(frames, Frame(p, p.isRecording /\ p.connected))
  /\ IF p.isRecording /\ p.connected
     THEN SendAudioChunk(p.connected)
     ELSE UNCHANGED <<hWire, messages>>

\* ================================================== VoiceConversation
recRefs == <<streamRef, processor, leaked, liveStreams>>

\* Start Conversation, shown while the state is not "connected" and enabled
\* while it is not "connecting": connect() runs, then the handler waits 2 s.
HandleStartConversation(t, s) ==
  /\ connectionState \in {"disconnected", "error"}
  /\ Hook_Connect(s)
  /\ Suspend(t, "wait")
  /\ UNCHANGED <<callSide, offlineVars, recState, recRefs, isListening, isPushToTalk, frames>>

\* Test Connection Only: connect() and nothing else.
TestConnectionOnly(s) ==
  /\ connectionState \in {"disconnected", "error"}
  /\ Hook_Connect(s)
  /\ UNCHANGED <<callSide, offlineVars, recVars>>

\* The 2 s of handleStartConversation are over: initializeRecorder() runs to
\* its await of getUserMedia.
StartWaitElapsed(t) ==
  /\ tasks[t].pc = "wait"
  /\ tasks' = [tasks EXCEPT ![t].pc = "init"]
  /\ recState' = [recState EXCEPT !.error = ""]
  /\ UNCHANGED <<callSide, offlineVars, hookVars, recRefs, isListening, isPushToTalk, frames>>

\* getUserMedia of a suspended initializeRecorder settles, and its caller
\* runs on: handleStartConversation ("init") sets isListening and calls
\* startRecording unless push-to-talk was on, and startRecording calls
\* initializeRecorder again if its render had isInitialized false;
\* startRecording ("recInit") sets isRecording. A rejection sets the error and
\* ends the caller.
GetUserMediaSettles(t, ok) ==
  /\ tasks[t].pc \in {"init", "recInit"}
  /\ IF ok
     THEN /\ InitializeRecorderResolved(tasks[t])
          /\ IF tasks[t].pc = "init" /\ tasks[t].isPushToTalk
             THEN /\ recState' = [recState EXCEPT !.isInitialized = TRUE, !.error = ""]
                  /\ tasks' = [tasks EXCEPT ![t] = NoTask]
                  /\ UNCHANGED isListening
             ELSE IF tasks[t].pc = "init" /\ ~tasks[t].isInitialized
             THEN /\ recState' = [recState EXCEPT !.isInitialized = TRUE, !.error = ""]
                  /\ tasks' = [tasks EXCEPT ![t].pc = "recInit"]
                  /\ isListening' = TRUE
             ELSE /\ recState' = [isRecording |-> TRUE, isInitialized |-> TRUE,
                                  error |-> ""]
                  /\ tasks' = [tasks EXCEPT ![t] = NoTask]
                  /\ isListening' = (isListening \/ tasks[t].pc = "init")
     ELSE /\ recState' = [recState EXCEPT !.isInitialized = FALSE,
                                          !.error = "getUserMedia"]
          /\ tasks' = [tasks EXCEPT ![t] = NoTask]
          /\ UNCHANGED <<recRefs, isListening>>
  /\ UNCHANGED <<callSide, offlineVars, hookVars, isPushToTalk, frames>>

\* startRecording() of the current render, called from a handler: with
\* isInitialized it sets isRecording at once, without it the handler suspends
\* in initializeRecorder.
StartRecordingNow ==
  IF recState.isInitialized
  THEN /\ recState' = [recState EXCEPT !.isRecording = TRUE, !.error = ""]
       /\ UNCHANGED tasks
  ELSE /\ recState' = [recState EXCEPT !.error = ""]
       /\ \E t \in Tasks : Suspend(t, "recInit")

\* End Conversation, shown while the state is "connected".
HandleEndConversation ==
  /\ connectionState = "connected"
  /\ isListening' = FALSE
  /\ Hook_Disconnect
  /\ Rec_Cleanup
  /\ UNCHANGED <<callSide, offlineVars, isPushToTalk, tasks, frames>>

\* The mode button, shown while the state is "connected".
TogglePushToTalk ==
  /\ connectionState = "connected"
  /\ isPushToTalk' = ~isPushToTalk
  /\ UNCHANGED <<callSide, offlineVars, hookVars, recState, recRefs, isListening, tasks, frames>>

\* handlePushToTalkPress (the branch that does something).
HandlePushToTalkPress ==
  /\ connectionState = "connected" /\ isPushToTalk
  /\ ~recState.isRecording
  /\ isListening' = TRUE
  /\ StartRecordingNow
  /\ UNCHANGED <<callSide, offlineVars, hookVars, recRefs, isPushToTalk, frames>>

\* handlePushToTalkRelease (the branch that does something).
HandlePushToTalkRelease ==
  /\ connectionState = "connected" /\ isPushToTalk
  /\ recState.isRecording
  /\ isListening' = FALSE
  /\ recState' = Rec_StopRecording(recState)
  /\ UNCHANGED <<callSide, offlineVars, hookVars, recRefs, isPushToTalk, tasks, frames>>

\* handleToggleContinuousListening
HandleToggleContinuousListening ==
  /\ connectionState = "connected" /\ ~isPushToTalk
  /\ isListening' = ~isListening
  /\ IF isListening
     THEN recState' = Rec_StopRecording(recState) /\ UNCHANGED tasks
     ELSE StartRecordingNow
  /\ UNCHANGED <<callSide, offlineVars, hookVars, recRefs, isPushToTalk, frames>>

\* A capture window of a processor that is still connected to a context.
OnAudioProcessEvent(p) ==
  /\ RecOnAudioProcess(p)
  /\ UNCHANGED <<callSide, offlineVars, connectionState, error, websocketRef, audioContextRef, hSock,
                 readyTimers, blobReads, decoding, sources, hIn, hKind, hMeta, hPings, playLog,
                 readyCount, readyFired, clean>>
  /\ UNCHANGED <<recState, recRefs, isListening, isPushToTalk, tasks>>

\* ================================================== MemoriesApiClient
\* What getVideoTranscription can resolve with (it never rejects: makeRequest
\* catches every failure of the request and returns it as an error):
\*   "ok"          success with the transcription
\*   "empty"       success with no data (the body parsed to nothing)
\*   "processing"  an error whose message is of the processing vocabulary
\*   "failed"      any other error
Responses == {"ok", "empty", "processing", "failed"}

TimeoutError == "Video processing timeout - max attempts reached"

ErrorOf(resp) ==
  IF resp = "processing" THEN "video is still processing" ELSE "upstream failure"

Succeeded(resp) == resp \in {"ok", "empty"}

Upload_Init ==
  /\ poll = [pc |-> "idle", maxAttempts |-> 0, attempt |-> 0, result |-> "none"]
  /\ pollHist = [requests |-> 0, waits |-> 0, last |-> "none"]
  /\ transcriptionState = [isProcessing |-> FALSE, transcription |-> FALSE,
                           error |-> "", status |-> "idle"]
  /\ trRun = [pc |-> "idle", completeCalls |-> 0, errorCalls |-> 0, fetches |-> 0,
              fetched |-> "none", statusLog |-> <<>>]
  /\ chatState = [isGenerating |-> FALSE, messages |-> <<>>, error |-> "",
                  isComplete |-> FALSE]
  /\ chatRun = [pc |-> "idle", arrived |-> <<>>, outcome |-> "none"]

\* pollVideoStatus(videoNo, n): the loop is entered; with n > 0 the first
\* request is issued, otherwise the loop body never runs.
Poll_Start(n) ==
  IF 0 < n
  THEN /\ poll' = [pc |-> "request", maxAttempts |-> n, attempt |-> 0, result |-> "none"]
       /\ pollHist' = [requests |-> 1, waits |-> 0, last |-> "none"]
  ELSE /\ poll' = [pc |-> "returned", maxAttempts |-> n, attempt |-> 0,
                   result |-> TimeoutError]
       /\ pollHist' = [requests |-> 0, waits |-> 0, last |-> "none"]

\* A loop body that waits and retries after every error, for comparison.
Poll_ResponseRetriesAll(resp) ==
  /\ poll.pc = "request"
  /\ IF Succeeded(resp)
     THEN /\ poll' = [poll EXCEPT !.pc = "returned", !.result = "PARSE"]
          /\ pollHist' = [pollHist EXCEPT !.last = resp]
     ELSE IF poll.attempt < poll.maxAttempts - 1
     THEN /\ poll' = [poll EXCEPT !.pc = "wait"]
          /\ pollHist' = [pollHist EXCEPT !.last = resp, !.waits = @ + 1]
     ELSE /\ poll' = [poll EXCEPT !.pc = "returned", !.result = ErrorOf(resp)]
          /\ pollHist' = [pollHist EXCEPT !.last = resp]

\* The request of the current attempt resolves: the rest of the loop body.
Poll_Response(resp) ==
  /\ poll.pc = "request"
  /\ IF Succeeded(resp)
     THEN /\ poll' = [poll EXCEPT !.pc = "returned", !.result = "PARSE"]
          /\ pollHist' = [pollHist EXCEPT !.last = resp]
     ELSE IF resp = "processing" /\ poll.attempt < poll.maxAttempts - 1
     THEN /\ poll' = [poll EXCEPT !.pc = "wait"]
          /\ pollHist' = [pollHist EXCEPT !.last = resp, !.waits = @ + 1]
     ELSE /\ poll' = [poll EXCEPT !.pc = "returned", !.result = ErrorOf(resp)]
          /\ pollHist' = [pollHist EXCEPT !.last = resp]

\* The interval timer fires: continue, attempt++, next request.
Poll_WaitElapsed ==
  /\ poll.pc = "wait"
  /\ poll' = [poll EXCEPT !.pc = "request", !.attempt = @ + 1]
  /\ pollHist' = [pollHist EXCEPT !.requests = @ + 1]

\* ================================================== useVideoUpload
\* The catch of startTranscription.
Tr_Failed(msg) ==
  /\ transcriptionState' = [transcriptionState EXCEPT !.isProcessing = FALSE,
                                                      !.error = msg,
                                                      !.status = "error"]
  /\ trRun' = [trRun EXCEPT !.pc = "done", !.errorCalls = @ + 1,
                            !.statusLog = Append(@, "error")]

\* startTranscription up to its first await.
StartTranscription ==
  /\ trRun.pc \in {"idle", "done"}
  /\ poll.pc \in {"idle", "returned"}
  /\ transcriptionState' = [transcriptionState EXCEPT !.isProcessing = TRUE,
                                                      !.status = "processing",
                                                      !.error = ""]
  /\ trRun' = [pc |-> "polling", completeCalls |-> 0, errorCalls |-> 0, fetches |-> 0,
               fetched |-> "none", statusLog |-> <<"processing">>]
  /\ Poll_Start(DefaultMaxAttempts)

\* A continuation that goes on to the transcription whatever the poll said.
Tr_AfterPollAnyResult(result) ==
  /\ transcriptionState' = [transcriptionState EXCEPT !.status = "transcribing"]
  /\ trRun' = [trRun EXCEPT !.pc = "fetching", !.fetches = @ + 1,
                            !.statusLog = Append(@, "transcribing")]

\* startTranscription after `await pollVideoStatus`.
Tr_AfterPoll(result) ==
  IF result = "PARSE"
  THEN /\ transcriptionState' = [transcriptionState EXCEPT !.status = "transcribing"]
       /\ trRun' = [trRun EXCEPT !.pc = "fetching", !.fetches = @ + 1,
                                 !.statusLog = Append(@, "transcribing")]
  ELSE Tr_Failed(result)

\* startTranscription after `await getVideoTranscription`.
Tr_FetchResponse(resp) ==
  /\ trRun.pc = "fetching"
  /\ IF resp = "ok"
     THEN /\ transcriptionState' = [transcriptionState EXCEPT !.isProcessing = FALSE,
                                                              !.transcription = TRUE,
                                                              !.status = "completed"]
          /\ trRun' = [trRun EXCEPT !.pc = "done", !.fetched = resp,
                                    !.completeCalls = @ + 1,
                                    !.statusLog = Append(@, "completed")]
     ELSE /\ transcriptionState' = [transcriptionState EXCEPT !.isProcessing = FALSE,
                 !.error = IF resp = "empty" THEN "Failed to get transcription"
                           ELSE ErrorOf(resp),
                 !.status = "error"]
          /\ trRun' = [trRun EXCEPT !.pc = "done", !.fetched = resp,
                                    !.errorCalls = @ + 1,
                                    !.statusLog = Append(@, "error")]

\* generateReport up to `await chatWithVideo`. One generation at a time.
GenerateReport ==
  /\ chatRun.pc \in {"idle", "done"}
  /\ chatState' = [chatState EXCEPT !.isGenerating = TRUE, !.error = "",
                                    !.isComplete = FALSE, !.messages = <<>>]
  /\ chatRun' = [pc |-> "streaming", arrived |-> <<>>, outcome |-> "none"]

\* The message callback handed to chatWithVideo.
Chat_OnMessage(e) ==
  /\ chatRun.pc = "streaming"
  /\ Len(chatRun.arrived) < MaxEvents
  /\ chatState' = [chatState EXCEPT !.messages = Append(@, e)]
  /\ chatRun' = [chatRun EXCEPT !.arrived = Append(@, e)]

\* A failure branch that starts the report over.
Chat_FailedDropsMessages ==
  chatState' = [chatState EXCEPT !.isGenerating = FALSE,
                                 !.error = "Failed to generate report",
                                 !.isComplete = FALSE,
                                 !.messages = <<>>]

\* The throw of generateReport and its catch.
Chat_Failed ==
  chatState' = [chatState EXCEPT !.isGenerating = FALSE,
                                 !.error = "Failed to generate report",
                                 !.isComplete = FALSE]

\* generateReport after `await chatWithVideo`: it resolved with data ("ok"),
\* resolved without ("failed"), or rejected ("threw").
Chat_Settles(outcome) ==
  /\ chatRun.pc = "streaming"
  /\ chatRun' = [chatRun EXCEPT !.pc = "done", !.outcome = outcome]
  /\ IF outcome = "ok"
     THEN chatState' = [chatState EXCEPT !.isGenerating = FALSE, !.isComplete = TRUE]
     ELSE Chat_Failed

\* ================================================== PCM conversion
\* A sample is a rational <<numerator, denominator>> with denominator > 0.
ClaimedSamples == {<<0, 1>>, <<1, 2>>, <<-1, 2>>, <<1, 1>>, <<-1, 1>>}

Samples == ClaimedSamples \cup {<<3, 2>>, <<-3, 2>>}

PcmFrames == UNION {[1..n -> Samples] : n \in 1..MaxFrameLen}

\* ToIntegerOrInfinity: the fraction is dropped, towards zero.
Trunc(n, d) == IF n >= 0 THEN n \div d ELSE -((-n) \div d)

\* Storing into an Int16Array: modulo 2^16, read back as signed.
ToInt16(n) == ((n + 32768) % 65536) - 32768

\* A conversion that scales by 2^15 and does not clamp.
RecorderPcmNoClamp(s) == ToInt16(Trunc(s[1] * 32768, s[2]))

\* usePCMAudioRecorder: Math.max(-32768, Math.min(32767, x * 32767)).
RecorderPcm(s) ==
  LET v == s[1] * 32767
  IN  ToInt16(IF v > 32767 * s[2] THEN 32767
              ELSE IF v < -32768 * s[2] THEN -32768
              ELSE Trunc(v, s[2]))

\* AudioManager.startRecording: clamp to [-1, 1], then x < 0 ? x * 0x8000 : x * 0x7fff.
ManagerPcm(s) ==
  LET c == IF s[1] > s[2] THEN <<1, 1>> ELSE IF s[1] < -s[2] THEN <<-1, 1>> ELSE s
  IN  ToInt16(IF c[1] < 0 THEN Trunc(c[1] * 32768, c[2]) ELSE Trunc(c[1] * 32767, c[2]))

\* AudioManager.pcmToAudioBuffer: int16 / 32768.0 (exact in float32).
PcmToFloat(e) == <<e, 32768>>

Pcm_Init == pcm = [pc |-> "raw", encoder |-> "none", input |-> <<>>,
                   encoded |-> <<>>, decoded |-> <<>>]

Pcm_Draw ==
  \E f \in PcmFrames :
    pcm = [pc |-> "raw", encoder |-> "none", input |-> f,
           encoded |-> <<>>, decoded |-> <<>>]

Pcm_EncodeRecorder ==
  /\ pcm.pc = "raw" /\ pcm.input # <<>>
  /\ pcm' = [pcm EXCEPT !.pc = "encoded", !.encoder = "recorder",
                        !.encoded = [i \in DOMAIN pcm.input |-> RecorderPcm(pcm.input[i])]]

Pcm_EncodeManager ==
  /\ pcm.pc = "raw" /\ pcm.input # <<>>
  /\ pcm' = [pcm EXCEPT !.pc = "encoded", !.encoder = "manager",
                        !.encoded = [i \in DOMAIN pcm.input |-> ManagerPcm(pcm.input[i])]]

Pcm_Decode ==
  /\ pcm.pc = "encoded"
  /\ pcm' = [pcm EXCEPT !.pc = "decoded",
                        !.decoded = [i \in DOMAIN pcm.encoded |-> PcmToFloat(pcm.encoded[i])]]

\* ---------------------------------- the emergency call screen
InitCall == AM_Init /\ Call_Init /\ Hook_Init /\ Rec_Init /\ Upload_Init /\ Pcm_Init

NextCall ==
  \/ \E c \in Calls : HandleEmergencyCall(c)
  \/ \E c \in Calls, granted \in BOOLEAN : PermissionSettles(c, granted)
  \/ \E c \in Calls, s \in Socks \cup {0}, res \in {"agent", "no agent_id", "failed"} :
       ProvisioningSettles(c, s, res)
  \/ \E s \in Socks : SockOpen(s)
  \/ \E s \in Socks : RecTimerFires(s)
  \/ OnAudioProcess
  \/ \E s \in Socks : SockMessage(s)
  \/ \E s \in Socks : SockError(s)
  \/ \E s \in Socks, normal \in BOOLEAN : SockClose(s, normal)
  \/ HandleHangUp
  \/ Unmount
  \/ \E b \in Buffers : CallOnEnded(b)

SpecCall == InitCall /\ [][NextCall]_vars

\* ---------------------------------- the hook under any caller
ConnConnect == (\E s \in HSocks : Hook_Connect(s)) /\ UNCHANGED <<callSide, offlineVars, recVars>>

ConnDisconnect == Hook_Disconnect /\ UNCHANGED <<callSide, offlineVars, recVars>>

ConnOnOpen == (\E s \in HSocks : Hook_OnOpen(s)) /\ UNCHANGED <<callSide, offlineVars, recVars>>

ConnOnMessage == (\E s \in HSocks : Hook_OnMessage(s)) /\ UNCHANGED <<callSide, offlineVars, recVars>>

ConnReadyTimerFires ==
  (\E s \in HSocks : Hook_ReadyTimerFires(s)) /\ UNCHANGED <<callSide, offlineVars, recVars>>

ConnBlobRead == (\E b \in Msgs : Hook_BlobRead(b)) /\ UNCHANGED <<callSide, offlineVars, recVars>>

ConnDecodeSettles ==
  /\ \E d \in decoding, playable \in BOOLEAN : Hook_DecodeSettles(d, playable)
  /\ UNCHANGED <<callSide, offlineVars, recVars>>

ConnPlayEnds == (\E b \in Msgs : Hook_PlayEnds(b)) /\ UNCHANGED <<callSide, offlineVars, recVars>>

ConnOnError == (\E s \in HSocks : Hook_OnError(s)) /\ UNCHANGED <<callSide, offlineVars, recVars>>

ConnOnClose ==
  /\ \E s \in HSocks, normal \in BOOLEAN : Hook_OnClose(s, normal)
  /\ UNCHANGED <<callSide, offlineVars, recVars>>

InitConn == AM_Init /\ Call_Init /\ Hook_Init /\ Rec_Init /\ Upload_Init /\ Pcm_Init

NextConn ==
  \/ ConnConnect
  \/ ConnDisconnect
  \/ ConnOnOpen
  \/ ConnOnMessage
  \/ ConnReadyTimerFires
  \/ ConnBlobRead
  \/ ConnDecodeSettles
  \/ ConnPlayEnds
  \/ ConnOnError
  \/ ConnOnClose

SpecConn == InitConn /\ [][NextConn]_vars

\* A timer that was set fires.
FairSpecConn == SpecConn /\ WF_vars(ConnReadyTimerFires)

\* ---------------------------------- the voice conversation screen
InitVoice == AM_Init /\ Call_Init /\ Hook_Init /\ Rec_Init /\ Upload_Init /\ Pcm_Init

NextVoice ==
  \/ \E t \in Tasks, s \in HSocks : HandleStartConversation(t, s)
  \/ \E s \in HSocks : TestConnectionOnly(s)
  \/ \E t \in Tasks : StartWaitElapsed(t)
  \/ \E t \in Tasks, ok \in BOOLEAN : GetUserMediaSettles(t, ok)
  \/ HandleEndConversation
  \/ TogglePushToTalk
  \/ HandlePushToTalkPress
  \/ HandlePushToTalkRelease
  \/ HandleToggleContinuousListening
  \/ \E p \in {processor} \cup leaked : OnAudioProcessEvent(p)
  \/ ConnOnOpen
  \/ ConnOnMessage
  \/ ConnReadyTimerFires
  \/ ConnBlobRead
  \/ ConnDecodeSettles
  \/ ConnPlayEnds
  \/ ConnOnError
  \/ ConnOnClose

SpecVoice == InitVoice /\ [][NextVoice]_vars

\* ---------------------------------- the AudioManager under any caller
PlayAudio == (\E decodable \in BOOLEAN : AM_PlayAudio(decodable)) /\ UNCHANGED <<callVars, voiceVars, offlineVars>>

OnEnded == (\E b \in Buffers : AM_OnEnded(b)) /\ UNCHANGED <<callVars, voiceVars, offlineVars>>

RequestPermission ==
  (\E granted \in BOOLEAN : AM_RequestPermission(granted)) /\ UNCHANGED <<callVars, voiceVars, offlineVars>>

StartRecording == AM_StartRecording /\ UNCHANGED <<callVars, voiceVars, offlineVars>>

StopRecording == AM_StopRecording /\ UNCHANGED <<callVars, voiceVars, offlineVars>>

Cleanup == AM_Cleanup /\ UNCHANGED <<callVars, voiceVars, offlineVars>>

InitAudio == AM_Init /\ Call_Init /\ Hook_Init /\ Rec_Init /\ Upload_Init /\ Pcm_Init

NextAudio ==
  \/ PlayAudio
  \/ OnEnded
  \/ RequestPermission
  \/ StartRecording
  \/ StopRecording
  \/ Cleanup

SpecAudio == InitAudio /\ [][NextAudio]_vars

\* The audio clock ends every buffer it started.
FairSpecAudio == SpecAudio /\ WF_vars(OnEnded)

\* ---------------------------------- upload: polling, transcription, report
UpPollVideoStatus ==
  /\ trRun.pc \in {"idle", "done"}
  /\ poll.pc \in {"idle", "returned"}
  /\ \E n \in 0..MaxAttempts : Poll_Start(n)
  /\ UNCHANGED <<callSide, voiceVars, transcriptionState, trRun, chatVars, pcm>>

UpStartTranscription ==
  StartTranscription /\ UNCHANGED <<callSide, voiceVars, chatVars, pcm>>

UpPollResponse ==
  /\ \E resp \in Responses :
       /\ Poll_Response(resp)
       /\ IF trRun.pc = "polling" /\ poll'.pc = "returned"
          THEN Tr_AfterPoll(poll'.result)
          ELSE UNCHANGED <<transcriptionState, trRun>>
  /\ UNCHANGED <<callSide, voiceVars, chatVars, pcm>>

UpPollWaitElapsed ==
  /\ Poll_WaitElapsed
  /\ UNCHANGED <<callSide, voiceVars, transcriptionState, trRun, chatVars, pcm>>

UpFetchResponse ==
  /\ \E resp \in Responses : Tr_FetchResponse(resp)
  /\ UNCHANGED <<callSide, voiceVars, pollVars, chatVars, pcm>>

UpGenerateReport ==
  GenerateReport /\ UNCHANGED <<callSide, voiceVars, pollVars, trVars, pcm>>

UpChatMessage ==
  /\ \E e \in ChatEvents : Chat_OnMessage(e)
  /\ UNCHANGED <<callSide, voiceVars, pollVars, trVars, pcm>>

UpChatSettles ==
  /\ \E outcome \in {"ok", "failed", "threw"} : Chat_Settles(outcome)
  /\ UNCHANGED <<callSide, voiceVars, pollVars, trVars, pcm>>

InitUpload == AM_Init /\ Call_Init /\ Hook_Init /\ Rec_Init /\ Upload_Init /\ Pcm_Init

NextUpload ==
  \/ UpPollVideoStatus
  \/ UpStartTranscription
  \/ UpPollResponse
  \/ UpPollWaitElapsed
  \/ UpFetchResponse
  \/ UpGenerateReport
  \/ UpChatMessage
  \/ UpChatSettles

SpecUpload == InitUpload /\ [][NextUpload]_vars

\* Every request settles (the client aborts it after its timeout) and the
\* interval timer fires.
FairSpecUpload ==
  SpecUpload /\ WF_vars(UpPollResponse) /\ WF_vars(UpPollWaitElapsed)

\* ---------------------------------- the PCM conversions on any frame
PcmEncodeRecorder == Pcm_EncodeRecorder /\ UNCHANGED <<callSide, voiceVars, uploadVars>>

PcmEncodeManager == Pcm_EncodeManager /\ UNCHANGED <<callSide, voiceVars, uploadVars>>

PcmDecode == Pcm_Decode /\ UNCHANGED <<callSide, voiceVars, uploadVars>>

InitPcm == AM_Init /\ Call_Init /\ Hook_Init /\ Rec_Init /\ Upload_Init /\ Pcm_Draw

NextPcm == PcmEncodeRecorder \/ PcmEncodeManager \/ PcmDecode

SpecPcm == InitPcm /\ [][NextPcm]_vars

\* ================================================== claims
Rendered(b) == \E i \in 1..Len(renderLog) : renderLog[i] = b

\* C2: as long as cleanup() is not called, every buffer handed to playAudio that
\* can be decoded is eventually rendered.
C2_EveryBufferRendered ==
  \A b \in Buffers :
    [](((b < nextBuf) /\ (b \notin badBufs) /\ ~cleaned) => <>(Rendered(b) \/ cleaned))

\* C3: the channel is Connected, and reported as connected to its subscribers,
\* only after conversation_initiation_metadata has been received on the current
\* connection; the transport opening is not enough.
C3_ConnectedOnlyAfterAck ==
  ui.isConnected => (websocket # 0 /\ ackRecv[websocket])

\* C4: no user audio chunk is written to a transport before the initiation
\* acknowledgement of that connection has been received.
C4_NoAudioBeforeAck ==
  \A i \in 1..Len(wire) : wire[i].kind = "user_audio_chunk" => wire[i].acked

\* C8: two disconnect() calls in succession, the close event of the transport
\* counted in, notify the subscribers of Disconnected exactly once.
C8_DisconnectTwiceNotifiesOnce ==
  discRun = 2 => discNotifs = 1

\* C9: once the conversation was ended while its start was pending, no transport
\* is connecting or open, no capture runs and the session stays disconnected.
C9_NothingStartsAfterEnd ==
  endedPending =>
    /\ Live(sockState) = {}
    /\ ~isRecording
    /\ ~ui.isConnected /\ ~ui.isConnecting

\* C10: from the end of the conversation until a new one is started, no buffer
\* starts rendering.
C10_NoRenderAfterEnd ==
  [][(ended /\ ended') => renderLog' = renderLog]_vars

\* C1: buffers handed to playback start rendering in the order they were handed
\* over, and no two of them render at the same time. Stated for the channel
\* hook's playAudioResponse: its sources are started in message order and at
\* most one has not ended.
C1_InOrderOneAtATime ==
  /\ Cardinality(sources) <= 1
  /\ \A i, j \in 1..Len(playLog) : i < j => playLog[i] < playLog[j]

\* C5: a capture window the recorder processes while its gate returns false is
\* dropped: onAudioData is not invoked for it, and nothing of it reaches the
\* channel later, so what the hook wrote or logged as user audio is never more
\* than the windows that were forwarded.
C5_Forwarded == Cardinality({i \in 1..Len(frames) : frames[i].forwarded})

C5_GateClosedDropsFrame ==
  /\ \A i \in 1..Len(frames) : ~frames[i].gate => ~frames[i].forwarded
  /\ Cardinality({i \in 1..Len(hWire) : hWire[i].kind = "user_audio_chunk"})
       <= C5_Forwarded
  /\ Cardinality({i \in 1..Len(messages) : messages[i].type = "user_audio_chunk"})
       <= C5_Forwarded

C5_Witness ==
  \E i \in 1..Len(frames) :
    frames[i].isRecording /\ ~frames[i].gate /\ ~frames[i].forwarded

\* C6: after connect(), transport open and one conversation_initiation_metadata
\* message, with no disconnect, close or error in between, the channel state
\* eventually becomes "connected", and once the timer of that connection has
\* fired the state is "connected" and was entered exactly once.
C6_ReadyCase ==
  /\ clean
  /\ websocketRef # 0
  /\ hSock[websocketRef] = "open"
  /\ hMeta[websocketRef] = 1

C6_ConnectedExactlyOnce ==
  /\ [](clean /\ readyFired => connectionState = "connected" /\ readyCount = 1)
  /\ (C6_ReadyCase ~> (connectionState = "connected" \/ ~clean))

C6_Witness ==
  /\ C6_ReadyCase
  /\ readyFired
  /\ readyTimers[websocketRef] = 0
  /\ connectionState = "connected"
  /\ readyCount = 1

\* C7: for every inbound ping the channel writes exactly one pong to the
\* transport before it handles a later message. Stated for the channel hook:
\* the pongs it has written are as many as the pings it has handled.
C7_PongPerPing ==
  hPings = Cardinality({i \in 1..Len(hWire) : hWire[i].kind = "pong"})

\* C11: at most one transport created by a channel instance is live (connecting
\* or open) at any moment, whatever the sequence of connect() calls. Stated
\* for the channel hook.
C11_AtMostOneLiveSocket ==
  Cardinality({s \in HSocks : hSock[s] \in {"connecting", "open"}}) <= 1

\* C12: inbound messages are recorded in the hook's message log in the order
\* they arrived: of two entries that stand for inbound messages, the earlier
\* entry is the earlier message.
C12_LogInArrivalOrder ==
  \A i, j \in 1..Len(messages) :
    (i < j /\ messages[i].n > 0 /\ messages[j].n > 0) => messages[i].n < messages[j].n

\* C13: a frame captured while capture is running and the channel is connected
\* is written to the transport (exactly once, in capture order): every window
\* processed in such a moment was sent.
C13_CapturedFramesSent ==
  \A i \in 1..Len(frames) : frames[i].due => frames[i].sent

\* C14: when a transport closes with a code other than 1000, an error that
\* carries the code is surfaced to the consumers. Stated for the emergency
\* call: after such a close event the component shows an error.
C14_AbnormalCloseSurfacesError ==
  (mounted /\ transport = "abnormal") => ui.error # ""

\* C15: an inbound message that cannot be parsed or whose type is not
\* recognised changes nothing of the session: the connection state, the
\* transports, the error, the message log, playback and capture are as they
\* were, and the socket it came on stays open for the messages that follow.
C15_UnknownMessageSkipped ==
  [][(hIn' = hIn + 1 /\ hKind' = "other")
       => /\ UNCHANGED <<connectionState, error, messages, websocketRef,
                         audioContextRef, hSock, readyTimers, blobReads, decoding,
                         sources, hWire, playLog>>
          /\ UNCHANGED recVars
          /\ \E s \in HSocks : hSock'[s] = "open"]_vars

C15_Witness ==
  /\ hKind = "other"
  /\ connectionState = "connected"
  /\ websocketRef # 0 /\ hSock[websocketRef] = "open"
  /\ hMeta[websocketRef] = 1

\* C16: after the transport reported an error or closed, capture is stopped
\* and stays stopped until a new conversation is started, whenever the capture
\* start scheduled at transport-open runs. Stated for the state in which every
\* transport the service made is closed: the AudioManager is not recording
\* and holds no capture graph.
C16_CaptureStoppedAfterClose ==
  (/\ \E s \in Socks : sockState[s] = "closed"
   /\ \A s \in Socks : sockState[s] \in {"none", "closed"}
   /\ \A c \in Calls : calls[c] \in {"none", "done"})
    => (~isRecording /\ ~recordingProcessor)

\* C17: ending the conversation (ElevenLabsService.disconnect() followed by
\* AudioManager.cleanup(), from the hang-up handler or the unmount cleanup)
\* leaves capture stopped, the transport the service held closing or closed
\* and dereferenced, the playback queue empty and the microphone released;
\* and when the step before was already such an ending, it changes none of
\* the AudioManager's or the service's fields.
C17_Ending == discRun' = discRun + 1

C17_EndConversationIdempotent ==
  [][C17_Ending =>
       /\ ~isRecording' /\ ~recordingProcessor' /\ ~audioContext'
       /\ websocket' = 0 /\ ~agentId'
       /\ websocket # 0 => sockState'[websocket] \notin {"connecting", "open"}
       /\ audioQueue' = <<>> /\ ~isPlaying'
       /\ ~audioStream'
       /\ discRun >= 1 =>
            UNCHANGED <<audioQueue, isPlaying, audioStream, audioContext, isRecording,
                        recordingProcessor, websocket, agentId, sockState>>]_vars

C17_Witness ==
  /\ discRun = 2
  /\ \E s \in Socks : sockState[s] = "closing"
  /\ rendering # {}
  /\ websocket = 0 /\ ~isRecording /\ audioQueue = <<>> /\ ~audioStream

\* C18: the transport of a conversation is opened only after provisioning has
\* returned an agent identifier: while the service holds a socket it holds
\* the identifier of the agent the socket was opened for.
C18_TransportOnlyWithAgent == websocket # 0 => agentId

\* C19: at most one microphone stream is live at any time in the voice
\* conversation screen; no stream is acquired while another one, not stopped,
\* is still held or was dropped.
C19_AtMostOneLiveStream == liveStreams <= 1

\* C20: in the emergency call the duration timer runs from the first
\* transcript of the call until the call ends by hang-up, close or error:
\* while the component shows a transcript of the call and no hang-up, close
\* or error has happened since the call began, the timer is running.
C20_TimerRunsFromFirstTranscript ==
  (mounted /\ ui.messages # <<>> /\ ~ended /\ transport = "none") => ui.timer

\* C21: when one buffer of the AudioManager's queue cannot be decoded it is
\* skipped and the buffers behind it are rendered without a further enqueue:
\* as long as cleanup() has not run, buffers wait in the queue only while
\* another buffer is rendering.
C21_QueueDrainsPastFailure ==
  (audioQueue # <<>> /\ ~cleaned) => rendering # {}

\* C22: when microphone permission is denied the denial is shown as an error,
\* the component is neither connecting nor in a call, and the step provisions
\* no agent and opens no transport.
C22_Denied == \E c \in Calls : calls[c] = "permission" /\ calls'[c] = "done"

C28_OneDrainLoop ==
  /\ Cardinality(rendering) <= 1
  /\ isPlaying <=> rendering # {}

\* C29: whenever the hook's connectionState is "connected" the hook holds a
\* reference to an open transport.
C29_ConnectedHoldsOpenSocket ==
  connectionState = "connected" => (websocketRef # 0 /\ hSock[websocketRef] = "open")

\* C30: in the emergency call a transcript message changes only the
\* transcript log and the timer: the service keeps its transport, capture
\* keeps running and the playback queue and the microphone stream are kept.
C30_TranscriptLeavesCallRunning ==
  [][Len(ui'.messages) = Len(ui.messages) + 1 =>
       UNCHANGED <<websocket, agentId, sockState, isRecording, recordingProcessor,
                   audioQueue, audioStream>>]_vars

C24_ExhaustionReportsTimeout ==
  (/\ poll.pc = "returned" /\ poll.maxAttempts >= 1
   /\ pollHist.requests = poll.maxAttempts /\ pollHist.last = "processing")
  => poll.result = TimeoutError

\* C25: while a report is generated the message list only grows, by one
\* appended event at a time; when the generation fails the events delivered
\* so far are all still in chatState.messages, in arrival order, with the
\* error set and isGenerating and isComplete false.
IsPrefix(a, b) == Len(a) <= Len(b) /\ SubSeq(b, 1, Len(a)) = a

Abs(x) == IF x < 0 THEN -x ELSE x

WithinOneStep(s, r) == Abs(s[1] * r[2] - r[1] * s[2]) <= (s[2] * r[2]) \div 32768

C26_RoundTripWithinOneStep ==
  /\ \A i \in DOMAIN pcm.encoded : pcm.encoded[i] \in -32768..32767
  /\ pcm.pc = "decoded" =>
       \A i \in DOMAIN pcm.input :
         pcm.input[i] \in ClaimedSamples => WithinOneStep(pcm.input[i], pcm.decoded[i])

C26_Witness ==
  /\ pcm.pc = "decoded" /\ pcm.encoder = "recorder"
  /\ pcm.input = << <<0, 1>>, <<1, 2>>, <<-1, 2>>, <<1, 1>>, <<-1, 1>> >>
  /\ pcm.encoded = <<0, 16383, -16383, 32767, -32767>>

\* C27: pollVideoStatus issues at most maxAttempts requests, waits the
\* interval only between two attempts, returns an error that is not of the
\* still-processing class on the attempt that got it, and always returns.
C27_Bounded ==
  /\ pollHist.requests <= poll.maxAttempts
  /\ poll.pc = "wait" =>
       pollHist.waits = pollHist.requests /\ poll.attempt < poll.maxAttempts - 1
  /\ (poll.pc \in {"request", "returned"} /\ pollHist.requests >= 1) =>
       pollHist.waits = pollHist.requests - 1
  /\ (poll.pc = "returned" /\ pollHist.last = "failed") => poll.result = ErrorOf("failed")

C27_PollTerminates ==
  /\ []C27_Bounded
  /\ [][(poll.pc = "request" /\ poll' # poll /\ pollHist'.last = "failed") =>
          /\ poll'.pc = "returned"
          /\ pollHist'.requests = pollHist.requests
          /\ pollHist'.waits = pollHist.waits]_vars
  /\ (poll.pc \in {"request", "wait"}) ~> (poll.pc = "returned")

C27_Witness ==
  /\ poll.pc = "returned" /\ poll.maxAttempts = 3 /\ pollHist.last = "failed"
  /\ pollHist.requests = 2 /\ pollHist.waits = 1

====
